---- MODULE Spec2Model ----
(***************************************************************************)
(* Transaction ledger of toko-pintar: createTransaction (the sale commit)  *)
(* and createPayment (debt settlement) over the PostgreSQL tables of       *)
(* server/src/db/schema.ts.                                                *)
(*                                                                         *)
(* The store is PostgreSQL at its default isolation level, READ COMMITTED: *)
(* a SELECT sees the rows committed when the statement starts, the writes  *)
(* of a db.transaction become visible to others only at COMMIT, an UPDATE  *)
(* takes the row's lock until the transaction ends, and a statement        *)
(* outside db.transaction commits by itself.  Every awaited statement of a *)
(* handler is one step; other calls may run between two steps.             *)
(*                                                                         *)
(* Money is counted in units of 1/Cent of a cent, so that amounts finer    *)
(* than the two decimals of a numeric(10,2) column exist.  JavaScript's    *)
(* double arithmetic is taken as exact on these small amounts: its error   *)
(* is far below the rounding of the column.                                *)
(***************************************************************************)
EXTENDS Integers, Sequences, FiniteSets, TLC

\* ------------------------------------------------------------------ bounds
NumProducts == 2        \* products 1..NumProducts exist; NumProducts+1 does not
MaxStock    == 2        \* initial stock_quantity of a product is 0..MaxStock
MaxQty      == 2        \* quantity of a cart line is 1..MaxQty
MaxItems    == 2        \* a cart has 1..MaxItems lines
MaxCalls    == 2        \* createTransaction calls, all possibly concurrent
Cent        == 4        \* money units per cent
MaxPrice    == 4        \* unit_price of a priced cart line is 1..MaxPrice units
MaxDiscount == 3        \* discount_amount is 0..MaxDiscount units
MaxTax      == 1        \* tax_amount is 0..MaxTax units
MaxPayCalls == 2        \* createPayment calls, all possibly concurrent
MaxAmount   == 6        \* amount of a payment is 1..MaxAmount units

Products     == 1..NumProducts
ProductIds   == 1..(NumProducts + 1)
Calls        == 1..MaxCalls
PayCalls     == 1..MaxPayCalls
CustomerIds  == 1..2
NoCustomer   == 0       \* customer_id: null

PaymentMethods == {"cash", "qris", "debt", "bank_transfer"}

\* ------------------------------------------------------------- arithmetic
RECURSIVE SumSeq(_)
SumSeq(s) == IF s = <<>> THEN 0 ELSE Head(s) + SumSeq(Tail(s))

\* Writing a JavaScript number into a numeric(10,2) column (toString(), then
\* PostgreSQL's cast) keeps two decimals: the value is rounded to the nearest
\* cent, a tie away from zero.  Reading it back (parseFloat) keeps the value.
numeric(x) == IF x >= 0 THEN ((2 * x + Cent) \div (2 * Cent)) * Cent
                        ELSE 0 - (((2 * (0 - x) + Cent) \div (2 * Cent)) * Cent)

\* ------------------------------------------------------------------ state
VARIABLES
    products,           \* productsTable, committed rows: id -> row
    transactions,       \* transactionsTable, committed rows in commit order
    transactionItems,   \* transactionItemsTable, committed rows
    payments,           \* paymentsTable, committed rows
    txSeq,              \* last value of the serial sequence of transactions.id
    rowLock,            \* product id -> the call whose open transaction holds the row lock, or 0
    pc,                 \* createTransaction call -> its position
    input,              \* createTransaction call -> its CreateTransactionInput
    allProducts,        \* createTransaction call -> the rows its selects returned
    idx,                \* createTransaction call -> index of its running loop
    pendingTx,          \* call -> transaction rows inserted and not yet committed
    pendingItems,       \* call -> item rows inserted and not yet committed
    pendingStock,       \* call -> stock updates issued and not yet committed
    error,              \* call -> the error it threw, or "none"
    errorProduct,       \* call -> the product the message of its error names, or 0
    result,             \* call -> the Transaction it returned (a sequence of 0 or 1)
    ppc,                \* createPayment call -> its position
    pinput,             \* createPayment call -> its CreatePaymentInput
    ptransaction,       \* createPayment call -> the transaction rows its select returned
    pstatus,            \* createPayment call -> newPaymentStatus
    perror,             \* createPayment call -> the error it threw, or "none"
    presult,            \* createPayment call -> the rows its insert returned (result)
    qpc,                \* getCustomerDebt call: its position
    qcustomer,          \* getCustomerDebt call: customerId
    qunpaid,            \* getCustomerDebt call: unpaidAmount, as its first select read it
    debt,               \* what the last getCustomerDebt call returned (a sequence of 0 or 1)
    upc,                \* updateProduct call: its position
    uinput,             \* updateProduct call: its UpdateProductInput
    uerror              \* the error the last updateProduct call threw, or "none"

store    == <<products, transactions, transactionItems, payments>>
saleVars == <<pc, input, allProducts, idx, pendingTx, pendingItems, pendingStock,
              error, errorProduct, result, txSeq, rowLock>>
payVars  == <<ppc, pinput, ptransaction, pstatus, perror, presult>>
queryVars == <<qpc, qcustomer, qunpaid, debt>>
catalogVars == <<upc, uinput, uerror>>
vars     == <<products, transactions, transactionItems, payments, txSeq, rowLock,
              pc, input, allProducts, idx, pendingTx, pendingItems, pendingStock,
              error, errorProduct, result, ppc, pinput, ptransaction, pstatus, perror,
              presult, qpc, qcustomer, qunpaid, debt, upc, uinput, uerror>>

NoInput    == [customer_id |-> NoCustomer, items |-> <<>>, discount_amount |-> 0,
               tax_amount |-> 0, payment_method |-> "cash"]
NoPayInput == [transaction_id |-> 0, customer_id |-> NoCustomer, amount |-> 0,
               payment_method |-> "cash"]
NoUpdate   == [id |-> 0]

\* ------------------------------------------------- createTransaction, pure
\* allProducts.find(p => p.id === item.product_id): the first row read for the id
findProduct(all, pid) ==
    LET hits == SelectSeq(all, LAMBDA r : r.id = pid) IN Head(hits)

\* (mutant) the comparison is off by one
insufficientStock_offByOne(all, item) ==
    findProduct(all, item.product_id).stock_quantity + 1 < item.quantity

\* product.stock_quantity < item.quantity
insufficientStock(all, item) ==
    findProduct(all, item.product_id).stock_quantity < item.quantity

\* (mutant) the stock loop looks at the first line of the cart only
stockCheckFails_firstLineOnly(all, items) == insufficientStock(all, items[1])

\* the stock loop throws at the first line that does not fit
stockCheckFails(all, items) ==
    \E k \in 1..Len(items) : insufficientStock(all, items[k])

\* the product named by `Insufficient stock for product ${product.name}`: that
\* of the first line that does not fit
firstShortProduct(all, items) ==
    LET k == CHOOSE n \in 1..Len(items) :
                 /\ insufficientStock(all, items[n])
                 /\ \A m \in 1..(n - 1) : ~insufficientStock(all, items[m])
    IN  items[k].product_id

\* item.quantity * item.unit_price
subtotal(item) == item.quantity * item.unit_price

\* input.items.reduce((sum, item) => sum + item.quantity * item.unit_price, 0)
totalAmount(items) == SumSeq([k \in 1..Len(items) |-> subtotal(items[k])])

\* (mutant) the final amount is clamped at zero
finalAmount_floored(inp) ==
    IF totalAmount(inp.items) - inp.discount_amount + inp.tax_amount < 0 THEN 0
    ELSE totalAmount(inp.items) - inp.discount_amount + inp.tax_amount

\* totalAmount - input.discount_amount + input.tax_amount
finalAmount(inp) == totalAmount(inp.items) - inp.discount_amount + inp.tax_amount

\* (mutant) the status is left to the default of the column, 'paid'
paymentStatus_columnDefault(method) == "paid"

\* input.payment_method === 'debt' ? 'pending' : 'paid'
paymentStatus(method) == IF method = "debt" THEN "pending" ELSE "paid"

\* the row of tx.insert(transactionsTable).values({...}).returning()
transactionRow(id, inp) ==
    [id              |-> id,
     customer_id     |-> inp.customer_id,
     total_amount    |-> numeric(totalAmount(inp.items)),
     discount_amount |-> numeric(inp.discount_amount),
     tax_amount      |-> numeric(inp.tax_amount),
     final_amount    |-> numeric(finalAmount(inp)),
     payment_method  |-> inp.payment_method,
     payment_status  |-> paymentStatus(inp.payment_method)]

\* the row of tx.insert(transactionItemsTable).values({...})
itemRow(txid, item) ==
    [transaction_id |-> txid,
     product_id     |-> item.product_id,
     quantity       |-> item.quantity,
     unit_price     |-> numeric(item.unit_price),
     subtotal       |-> numeric(subtotal(item))]

\* product.stock_quantity - item.quantity, on the row read before the check
newStockQuantity(all, item) ==
    findProduct(all, item.product_id).stock_quantity - item.quantity

\* the stock updates of an open transaction, applied in the order issued
RECURSIVE applyStock(_, _)
applyStock(prods, ups) ==
    IF ups = <<>> THEN prods
    ELSE applyStock([prods EXCEPT ![Head(ups).id].stock_quantity = Head(ups).stock_quantity],
                    Tail(ups))

\* ---------------------------------------------- createTransaction, steps
ProductIdsOf(c) == [k \in 1..Len(input[c].items) |-> input[c].items[k].product_id]

\* the statements of an open db.transaction that can be refused by the store
SaleStatements == {"selectFirst", "select", "insertTransaction", "insertItems",
                   "updateStock", "commit"}

\* an error leaves the callback: the local variables of the callback are gone,
\* the input of the handler is not, and the transaction is still open
Throw(c, e, pid) ==
    /\ error' = [error EXCEPT ![c] = e]
    /\ errorProduct' = [errorProduct EXCEPT ![c] = pid]
    /\ pc' = [pc EXCEPT ![c] = "rollback"]
    /\ UNCHANGED input
    /\ allProducts' = [allProducts EXCEPT ![c] = <<>>]
    /\ idx' = [idx EXCEPT ![c] = 0]

\* db.transaction(async (tx) => {...}) is entered: BEGIN
Begin(c, inp) ==
    /\ pc[c] = "idle"
    /\ IF c = 1 THEN TRUE ELSE pc[c - 1] # "idle"   \* calls are numbered as they arrive
    /\ pc' = [pc EXCEPT ![c] = "selectFirst"]
    /\ input' = [input EXCEPT ![c] = inp]
    /\ UNCHANGED <<store, payVars, queryVars, catalogVars, txSeq, rowLock, allProducts, idx,
                   pendingTx, pendingItems, pendingStock, error, errorProduct, result>>

\* const products = await tx.select()...where(eq(productsTable.id, productIds[0]))
\* its rows are never used
SelectFirst(c) ==
    /\ pc[c] = "selectFirst"
    /\ pc' = [pc EXCEPT ![c] = "select"]
    /\ idx' = [idx EXCEPT ![c] = 1]
    /\ UNCHANGED <<store, payVars, queryVars, catalogVars, txSeq, rowLock, input, allProducts,
                   pendingTx, pendingItems, pendingStock, error, errorProduct, result>>

\* (mutant) the message of the not-found error names the first product of the cart
SelectProduct_namesFirstProduct(c) ==
    /\ pc[c] = "select"
    /\ LET productId == ProductIdsOf(c)[idx[c]] IN
       IF productId \notin DOMAIN products
       THEN Throw(c, "not_found", ProductIdsOf(c)[1])
       ELSE /\ allProducts' = [allProducts EXCEPT ![c] =
                                 Append(@, [id |-> productId,
                                            stock_quantity |-> products[productId].stock_quantity,
                                            is_active |-> products[productId].is_active])]
            /\ idx' = [idx EXCEPT ![c] = @ + 1]
            /\ pc' = [pc EXCEPT ![c] = IF idx[c] = Len(input[c].items)
                                         THEN "check" ELSE "select"]
            /\ UNCHANGED <<error, errorProduct, input>>
    /\ UNCHANGED <<store, payVars, queryVars, catalogVars, txSeq, rowLock, pendingTx, pendingItems,
                   pendingStock, result>>

\* one turn of "for (const productId of productIds)": a select of the committed row
SelectProduct(c) ==
    /\ pc[c] = "select"
    /\ LET productId == ProductIdsOf(c)[idx[c]] IN
       IF productId \notin DOMAIN products
       THEN Throw(c, "not_found", productId)
       ELSE /\ allProducts' = [allProducts EXCEPT ![c] =
                                 Append(@, [id |-> productId,
                                            stock_quantity |-> products[productId].stock_quantity,
                                            is_active |-> products[productId].is_active])]
            /\ idx' = [idx EXCEPT ![c] = @ + 1]
            /\ pc' = [pc EXCEPT ![c] = IF idx[c] = Len(input[c].items)
                                         THEN "check" ELSE "select"]
            /\ UNCHANGED <<error, errorProduct, input>>
    /\ UNCHANGED <<store, payVars, queryVars, catalogVars, txSeq, rowLock, pendingTx, pendingItems,
                   pendingStock, result>>

\* "for (const item of input.items)": the stock check, on the rows read above
CheckStock(c) ==
    /\ pc[c] = "check"
    /\ IF stockCheckFails(allProducts[c], input[c].items)
       THEN Throw(c, "insufficient_stock", firstShortProduct(allProducts[c], input[c].items))
       ELSE /\ pc' = [pc EXCEPT ![c] = "insertTransaction"]
            /\ UNCHANGED <<error, errorProduct, input, allProducts, idx>>
    /\ UNCHANGED <<store, payVars, queryVars, catalogVars, txSeq, rowLock, pendingTx, pendingItems,
                   pendingStock, result>>

\* tx.insert(transactionsTable).values({...}).returning(): the serial id is
\* taken from the sequence, which a rollback does not give back
InsertTransaction(c) ==
    /\ pc[c] = "insertTransaction"
    /\ txSeq' = txSeq + 1
    /\ pendingTx' = [pendingTx EXCEPT ![c] = <<transactionRow(txSeq + 1, input[c])>>]
    /\ idx' = [idx EXCEPT ![c] = 1]
    /\ pc' = [pc EXCEPT ![c] = "insertItems"]
    /\ UNCHANGED <<store, payVars, queryVars, catalogVars, rowLock, input, allProducts, pendingItems,
                   pendingStock, error, errorProduct, result>>

\* one turn of the loop of tx.insert(transactionItemsTable)
InsertItem(c) ==
    /\ pc[c] = "insertItems"
    /\ pendingItems' = [pendingItems EXCEPT ![c] =
                          Append(@, itemRow(pendingTx[c][1].id, input[c].items[idx[c]]))]
    /\ IF idx[c] = Len(input[c].items)
       THEN /\ pc' = [pc EXCEPT ![c] = "updateStock"]
            /\ idx' = [idx EXCEPT ![c] = 1]
       ELSE /\ idx' = [idx EXCEPT ![c] = @ + 1]
            /\ UNCHANGED pc
    /\ UNCHANGED <<store, payVars, queryVars, catalogVars, txSeq, rowLock, input, allProducts,
                   pendingTx, pendingStock, error, errorProduct, result>>

\* one turn of the loop of tx.update(productsTable).set({stock_quantity: ...}):
\* the UPDATE waits for the row lock while another open transaction holds it
NextProduct(c) == input[c].items[idx[c]].product_id

UpdateStock(c) ==
    /\ pc[c] = "updateStock"
    /\ rowLock[NextProduct(c)] \in {0, c}
    /\ rowLock' = [rowLock EXCEPT ![NextProduct(c)] = c]
    /\ pendingStock' = [pendingStock EXCEPT ![c] =
                          Append(@, [id |-> NextProduct(c),
                                     stock_quantity |->
                                        newStockQuantity(allProducts[c], input[c].items[idx[c]])])]
    /\ IF idx[c] = Len(input[c].items)
       THEN /\ pc' = [pc EXCEPT ![c] = "commit"]
            /\ UNCHANGED idx
       ELSE /\ idx' = [idx EXCEPT ![c] = @ + 1]
            /\ UNCHANGED pc
    /\ UNCHANGED <<store, payVars, queryVars, catalogVars, txSeq, input, allProducts, pendingTx,
                   pendingItems, error, errorProduct, result>>

\* the callback returns: COMMIT publishes every write of the transaction at once
Commit(c) ==
    /\ pc[c] = "commit"
    /\ transactions' = transactions \o pendingTx[c]
    /\ transactionItems' = transactionItems \o pendingItems[c]
    /\ products' = applyStock(products, pendingStock[c])
    /\ rowLock' = [p \in Products |-> IF rowLock[p] = c THEN 0 ELSE rowLock[p]]
    /\ result' = [result EXCEPT ![c] = pendingTx[c]]
    /\ pendingTx' = [pendingTx EXCEPT ![c] = <<>>]
    /\ pendingItems' = [pendingItems EXCEPT ![c] = <<>>]
    /\ pendingStock' = [pendingStock EXCEPT ![c] = <<>>]
    /\ pc' = [pc EXCEPT ![c] = "done"]
    /\ input' = [input EXCEPT ![c] = NoInput]
    /\ allProducts' = [allProducts EXCEPT ![c] = <<>>]
    /\ idx' = [idx EXCEPT ![c] = 0]
    /\ UNCHANGED <<payments, payVars, queryVars, catalogVars, txSeq, error, errorProduct>>

\* a statement of the open transaction is refused by the store (StorageError)
StorageFailure(c) ==
    /\ pc[c] \in SaleStatements
    /\ Throw(c, "storage", 0)
    /\ UNCHANGED <<store, payVars, queryVars, catalogVars, txSeq, rowLock, pendingTx, pendingItems,
                   pendingStock, result>>

\* the calls whose UPDATE waits, and the call each waits for
Waiting(c) == pc[c] = "updateStock" /\ rowLock[NextProduct(c)] \notin {0, c}

RECURSIVE WaitChain(_, _, _)
WaitChain(c, d, n) ==
    IF n = 0 \/ ~Waiting(d) THEN FALSE
    ELSE LET h == rowLock[NextProduct(d)] IN h = c \/ WaitChain(c, h, n - 1)

Deadlocked(c) == WaitChain(c, c, MaxCalls)

\* PostgreSQL's deadlock detector makes the UPDATE of one call of the cycle fail
DeadlockAbort(c) ==
    /\ Deadlocked(c)
    /\ Throw(c, "deadlock", 0)
    /\ UNCHANGED <<store, payVars, queryVars, catalogVars, txSeq, rowLock, pendingTx, pendingItems,
                   pendingStock, result>>

\* (mutant) the row locks of a transaction rolled back are not released
Rollback_keepsLocks(c) ==
    /\ pc[c] = "rollback"
    /\ pendingTx' = [pendingTx EXCEPT ![c] = <<>>]
    /\ pendingItems' = [pendingItems EXCEPT ![c] = <<>>]
    /\ pendingStock' = [pendingStock EXCEPT ![c] = <<>>]
    /\ pc' = [pc EXCEPT ![c] = "done"]
    /\ input' = [input EXCEPT ![c] = NoInput]
    /\ UNCHANGED <<store, payVars, queryVars, catalogVars, txSeq, rowLock, allProducts,
                   idx, error, errorProduct, result>>

\* (mutant) the item rows are inserted through db instead of tx: they stay
Rollback_keepsItems(c) ==
    /\ pc[c] = "rollback"
    /\ rowLock' = [p \in Products |-> IF rowLock[p] = c THEN 0 ELSE rowLock[p]]
    /\ transactionItems' = transactionItems \o pendingItems[c]
    /\ pendingTx' = [pendingTx EXCEPT ![c] = <<>>]
    /\ pendingItems' = [pendingItems EXCEPT ![c] = <<>>]
    /\ pendingStock' = [pendingStock EXCEPT ![c] = <<>>]
    /\ pc' = [pc EXCEPT ![c] = "done"]
    /\ input' = [input EXCEPT ![c] = NoInput]
    /\ UNCHANGED <<products, transactions, payments, payVars, queryVars, catalogVars, txSeq,
                   allProducts, idx, error, errorProduct, result>>

\* the callback threw: ROLLBACK drops every write of the transaction, and
\* "catch (error) { throw error }" hands the error to the caller
Rollback(c) ==
    /\ pc[c] = "rollback"
    /\ rowLock' = [p \in Products |-> IF rowLock[p] = c THEN 0 ELSE rowLock[p]]
    /\ pendingTx' = [pendingTx EXCEPT ![c] = <<>>]
    /\ pendingItems' = [pendingItems EXCEPT ![c] = <<>>]
    /\ pendingStock' = [pendingStock EXCEPT ![c] = <<>>]
    /\ pc' = [pc EXCEPT ![c] = "done"]
    /\ input' = [input EXCEPT ![c] = NoInput]
    /\ UNCHANGED <<store, payVars, queryVars, catalogVars, txSeq, allProducts, idx, error,
                   errorProduct, result>>

\* ------------------------------------------------------ createPayment
\* (mutant) the sum is that of the newest payment alone
totalPaidAmount_lastPaymentOnly(pays, txid) ==
    LET own == SelectSeq(pays, LAMBDA r : r.transaction_id = txid)
    IN  IF own = <<>> THEN 0 ELSE own[Len(own)].amount

\* totalPayments.reduce((sum, payment) => sum + parseFloat(payment.amount), 0)
\* over the rows of paymentsTable with the transaction's id
totalPaidAmount(pays, txid) ==
    SumSeq([k \in 1..Len(pays) |->
              IF pays[k].transaction_id = txid THEN pays[k].amount ELSE 0])

\* (mutant) a payment of exactly the final amount does not close the debt
newPaymentStatus_strictlyMore(current, paid, final) ==
    IF paid > final THEN "paid"
    ELSE IF paid > 0 THEN "partial"
    ELSE current

\* let newPaymentStatus = transaction[0].payment_status; if (total >= final)
\* 'paid' else if (total > 0) 'partial'
newPaymentStatus(current, paid, final) ==
    IF paid >= final THEN "paid"
    ELSE IF paid > 0 THEN "partial"
    ELSE current

\* the row of db.insert(paymentsTable).values({...}).returning(), with its
\* serial id
paymentRow(id, inp) ==
    [id             |-> id,
     transaction_id |-> inp.transaction_id,
     customer_id    |-> inp.customer_id,
     amount         |-> numeric(inp.amount),
     payment_method |-> inp.payment_method]

\* the call returns result[0] or throws: its other local variables are gone
Return(k, e) ==
    /\ ppc' = [ppc EXCEPT ![k] = "done"]
    /\ perror' = [perror EXCEPT ![k] = e]
    /\ presult' = [presult EXCEPT ![k] = IF e = "none" THEN @ ELSE <<>>]
    /\ pinput' = [pinput EXCEPT ![k] = NoPayInput]
    /\ ptransaction' = [ptransaction EXCEPT ![k] = <<>>]
    /\ pstatus' = [pstatus EXCEPT ![k] = "none"]

BeginPayment(k, inp) ==
    /\ ppc[k] = "idle"
    /\ IF k = 1 THEN TRUE ELSE ppc[k - 1] # "idle"   \* calls are numbered as they arrive
    /\ ppc' = [ppc EXCEPT ![k] = "selectTransaction"]
    /\ pinput' = [pinput EXCEPT ![k] = inp]
    /\ UNCHANGED <<store, saleVars, queryVars, catalogVars, ptransaction, pstatus, perror, presult>>

\* (mutant) the payment_method of the transaction is not looked at
SelectTransaction_noMethodCheck(k) ==
    /\ ppc[k] = "selectTransaction"
    /\ LET transaction == SelectSeq(transactions,
                                    LAMBDA t : t.id = pinput[k].transaction_id) IN
       IF Len(transaction) = 0
       THEN Return(k, "not_found")
       ELSE /\ ptransaction' = [ptransaction EXCEPT ![k] = transaction]
            /\ ppc' = [ppc EXCEPT ![k] = "insertPayment"]
            /\ UNCHANGED <<pinput, pstatus, perror, presult>>
    /\ UNCHANGED <<store, saleVars, queryVars, catalogVars>>

\* (mutant) a select that returns no row is not looked at
SelectTransaction_noExistenceCheck(k) ==
    /\ ppc[k] = "selectTransaction"
    /\ LET transaction == SelectSeq(transactions,
                                    LAMBDA t : t.id = pinput[k].transaction_id) IN
       IF Len(transaction) > 0 /\ transaction[1].payment_method # "debt"
       THEN Return(k, "invalid_state")
       ELSE /\ ptransaction' = [ptransaction EXCEPT ![k] = transaction]
            /\ ppc' = [ppc EXCEPT ![k] = "insertPayment"]
            /\ UNCHANGED <<pinput, pstatus, perror, presult>>
    /\ UNCHANGED <<store, saleVars, queryVars, catalogVars>>

\* db.select().from(transactionsTable).where(eq(id, input.transaction_id)),
\* and the two checks on its rows
SelectTransaction(k) ==
    /\ ppc[k] = "selectTransaction"
    /\ LET transaction == SelectSeq(transactions,
                                    LAMBDA t : t.id = pinput[k].transaction_id) IN
       IF Len(transaction) = 0
       THEN Return(k, "not_found")
       ELSE IF transaction[1].payment_method # "debt"
       THEN Return(k, "invalid_state")
       ELSE /\ ptransaction' = [ptransaction EXCEPT ![k] = transaction]
            /\ ppc' = [ppc EXCEPT ![k] = "insertPayment"]
            /\ UNCHANGED <<pinput, pstatus, perror, presult>>
    /\ UNCHANGED <<store, saleVars, queryVars, catalogVars>>

\* db.insert(paymentsTable): outside any db.transaction, committed at once
InsertPayment(k) ==
    /\ ppc[k] = "insertPayment"
    /\ payments' = Append(payments, paymentRow(Len(payments) + 1, pinput[k]))
    /\ presult' = [presult EXCEPT ![k] = <<paymentRow(Len(payments) + 1, pinput[k])>>]
    /\ ppc' = [ppc EXCEPT ![k] = "selectPayments"]
    /\ UNCHANGED <<products, transactions, transactionItems, saleVars, queryVars, catalogVars, pinput,
                   ptransaction, pstatus, perror>>

\* db.select().from(paymentsTable).where(eq(transaction_id, ...)), the sum, and
\* the new status, derived from the transaction row read at the start
SelectPayments(k) ==
    /\ ppc[k] = "selectPayments"
    /\ LET new == newPaymentStatus(ptransaction[k][1].payment_status,
                                   totalPaidAmount(payments, pinput[k].transaction_id),
                                   ptransaction[k][1].final_amount) IN
       IF new # ptransaction[k][1].payment_status
       THEN /\ pstatus' = [pstatus EXCEPT ![k] = new]
            /\ ppc' = [ppc EXCEPT ![k] = "updateStatus"]
            /\ UNCHANGED <<pinput, ptransaction, perror, presult>>
       ELSE Return(k, "none")
    /\ UNCHANGED <<store, saleVars, queryVars, catalogVars>>

\* (mutant) the update has no where clause: every transaction gets the status
UpdateStatus_everyRow(k) ==
    /\ ppc[k] = "updateStatus"
    /\ transactions' = [i \in 1..Len(transactions) |->
                          [transactions[i] EXCEPT !.payment_status = pstatus[k]]]
    /\ Return(k, "none")
    /\ UNCHANGED <<products, transactionItems, payments, saleVars, queryVars, catalogVars>>

\* db.update(transactionsTable).set({ payment_status: newPaymentStatus })
UpdateStatus(k) ==
    /\ ppc[k] = "updateStatus"
    /\ transactions' = [i \in 1..Len(transactions) |->
                          IF transactions[i].id = pinput[k].transaction_id
                          THEN [transactions[i] EXCEPT !.payment_status = pstatus[k]]
                          ELSE transactions[i]]
    /\ Return(k, "none")
    /\ UNCHANGED <<products, transactionItems, payments, saleVars, queryVars, catalogVars>>

\* a statement is refused by the store: the error is thrown on, and what the
\* earlier statements committed stays
PaymentStatements == {"selectTransaction", "insertPayment", "selectPayments",
                      "updateStatus"}

PaymentStorageFailure(k) ==
    /\ ppc[k] \in PaymentStatements
    /\ Return(k, "storage")
    /\ UNCHANGED <<store, saleVars, queryVars, catalogVars>>

\* ---------------------------------------------------- getCustomerDebt
\* (mutant) the status filter is missing: paid transactions count too
unpaidAmount_anyStatus(txs, customerId) ==
    SumSeq([i \in 1..Len(txs) |->
              IF txs[i].customer_id = customerId THEN txs[i].final_amount ELSE 0])

\* parseFloat(unpaidTransactions[0]?.total || '0'): sum(final_amount) over the
\* transactions of the customer with payment_status IN ('pending', 'partial')
unpaidAmount(txs, customerId) ==
    SumSeq([i \in 1..Len(txs) |->
              IF /\ txs[i].customer_id = customerId
                 /\ txs[i].payment_status \in {"pending", "partial"}
              THEN txs[i].final_amount ELSE 0])

\* parseFloat(totalPayments[0]?.total || '0'): sum(amount) over the payments
\* whose customer_id is the customer
paidAmount(pays, customerId) ==
    SumSeq([i \in 1..Len(pays) |->
              IF pays[i].customer_id = customerId THEN pays[i].amount ELSE 0])

\* (mutant) the difference is returned as it is
customerDebt_noFloor(unpaid, paid) == unpaid - paid

\* Math.max(unpaidAmount - paidAmount, 0)
customerDebt(unpaid, paid) == IF unpaid - paid > 0 THEN unpaid - paid ELSE 0

\* the ids a caller may ask about: the customers, and an id of no customer
QueryCustomers == CustomerIds \cup {Cardinality(CustomerIds) + 1}

\* the first select: the transactions; the former result is out of date
SelectUnpaid(customerId) ==
    /\ qpc = "idle"
    /\ qpc' = "selectPayments"
    /\ qcustomer' = customerId
    /\ qunpaid' = unpaidAmount(transactions, customerId)
    /\ debt' = <<>>
    /\ UNCHANGED <<store, saleVars, payVars, catalogVars>>

\* the second select: the payments; the call returns
SelectPaid ==
    /\ qpc = "selectPayments"
    /\ debt' = <<customerDebt(qunpaid, paidAmount(payments, qcustomer))>>
    /\ qpc' = "idle"
    /\ qcustomer' = NoCustomer
    /\ qunpaid' = 0
    /\ UNCHANGED <<store, saleVars, payVars, catalogVars>>

\* the second select is refused by the store: the error is thrown on
DebtStorageFailure ==
    /\ qpc = "selectPayments"
    /\ debt' = <<>>
    /\ qpc' = "idle"
    /\ qcustomer' = NoCustomer
    /\ qunpaid' = 0
    /\ UNCHANGED <<store, saleVars, payVars, catalogVars>>

\* ------------------------------------------------------ updateProduct
\* (mutant) the new price is written to the items sold of the product too
repriced_itemsToo(items, inp) ==
    [i \in 1..Len(items) |->
        IF items[i].product_id = inp.id /\ "price" \in DOMAIN inp
        THEN [items[i] EXCEPT !.unit_price = numeric(inp.price),
                              !.subtotal = items[i].quantity * numeric(inp.price)]
        ELSE items[i]]

\* what db.update(productsTable) leaves in transactionItemsTable: its rows
repriced(items, inp) == items

\* the row after .set(updateData): the fields the input provides, the price
\* as the text of a numeric(10,2), every other field as it was
updateData(row, inp) ==
    [f \in DOMAIN row |->
        IF f \in DOMAIN inp
        THEN (IF f = "price" THEN numeric(inp[f]) ELSE inp[f])
        ELSE row[f]]

\* the call returns or throws: its input is gone
ReturnUpdate(e) ==
    /\ upc' = "idle"
    /\ uinput' = NoUpdate
    /\ uerror' = e

BeginUpdate(inp) ==
    /\ upc = "idle"
    /\ upc' = "selectProduct"
    /\ uinput' = inp
    /\ uerror' = "none"
    /\ UNCHANGED <<store, saleVars, payVars, queryVars>>

\* const existingProduct = await db.select()...where(eq(productsTable.id, input.id))
SelectExistingProduct ==
    /\ upc = "selectProduct"
    /\ IF uinput.id \notin DOMAIN products
       THEN ReturnUpdate("not_found")
       ELSE /\ upc' = "update"
            /\ UNCHANGED <<uinput, uerror>>
    /\ UNCHANGED <<store, saleVars, payVars, queryVars>>

\* db.update(productsTable).set(updateData).where(eq(productsTable.id, input.id)),
\* outside any db.transaction: it waits for the row lock, and commits at once
UpdateProduct ==
    /\ upc = "update"
    /\ rowLock[uinput.id] = 0
    /\ products' = [products EXCEPT ![uinput.id] = updateData(@, uinput)]
    /\ transactionItems' = repriced(transactionItems, uinput)
    /\ ReturnUpdate("none")
    /\ UNCHANGED <<transactions, payments, saleVars, payVars, queryVars>>

\* a statement of updateProduct is refused by the store: the error is thrown on
UpdateStorageFailure ==
    /\ upc \in {"selectProduct", "update"}
    /\ ReturnUpdate("storage")
    /\ UNCHANGED <<store, saleVars, payVars, queryVars>>

\* what cart `items` asks of product pid, all its lines together
RECURSIVE Demand(_, _)
Demand(items, pid) ==
    IF items = <<>> THEN 0
    ELSE (IF Head(items).product_id = pid THEN Head(items).quantity ELSE 0)
         + Demand(Tail(items), pid)

\* ------------------------------------------------------------- the inputs
CartLines(prices) ==
    [product_id : ProductIds, quantity : 1..MaxQty, unit_price : prices]

Carts(lines) == UNION {[1..n -> lines] : n \in 1..MaxItems}

\* carts over every product id, at one price of a cent, paid in cash
StockInputs ==
    [customer_id : {NoCustomer}, items : Carts(CartLines({Cent})),
     discount_amount : {0}, tax_amount : {0}, payment_method : {"cash"}]

\* carts on product 1 at every price, with discount, tax and every method
PricedInputs ==
    [customer_id : {NoCustomer},
     items : Carts([product_id : {1}, quantity : 1..MaxQty, unit_price : 1..MaxPrice]),
     discount_amount : 0..MaxDiscount, tax_amount : 0..MaxTax,
     payment_method : PaymentMethods]

\* a sale of one line at a price of a cent
Sale(customer, product, qty, method) ==
    [customer_id |-> customer,
     items |-> <<[product_id |-> product, quantity |-> qty, unit_price |-> Cent]>>,
     discount_amount |-> 0, tax_amount |-> 0, payment_method |-> method]

\* two sales committed one after the other: a debt sale of product 1 to
\* customer 1, then a sale of product 2
Ledgers ==
    {<<Sale(1, 1, q, "debt"), Sale(c, 2, 1, m)>> :
        q \in 1..(IF MaxQty < MaxStock THEN MaxQty ELSE MaxStock),
        c \in CustomerIds, m \in {"debt", "cash"}}

PaymentInputs ==
    [transaction_id : 1..3, customer_id : CustomerIds, amount : 1..MaxAmount,
     payment_method : {"cash"}]

\* updates of product 1 and of an id of no product: a new price, or the
\* product is taken off sale
UpdateProductInputs ==
    [id : {1, NumProducts + 1}, price : {2 * Cent}]
        \cup [id : {1, NumProducts + 1}, is_active : {FALSE}]

\* the sales made after the ledger: one line of one unit to customer 1
ShopInputs == {Sale(1, p, 1, m) : p \in Products, m \in {"cash", "debt"}}

\* the payments made while the catalog changes: whole cents
ShopPayments == {inp \in PaymentInputs : inp.amount = Cent}

\* carts of one unit a line over the products that exist, in every order
LiveInputs ==
    {inp \in StockInputs :
        \A k \in 1..Len(inp.items) :
            inp.items[k].product_id \in Products /\ inp.items[k].quantity = 1}

\* ----------------------------------------------------- the tRPC routes
\* (mutant) quantity is declared nonnegative() instead of positive()
createTransactionInputSchema_nonnegativeQuantity(inp) ==
    /\ Len(inp.items) >= 1
    /\ \A k \in 1..Len(inp.items) :
          inp.items[k].quantity >= 0 /\ inp.items[k].unit_price > 0
    /\ inp.discount_amount >= 0
    /\ inp.tax_amount >= 0
    /\ inp.payment_method \in PaymentMethods

\* createTransactionInputSchema: items min(1), quantity int positive,
\* unit_price positive, discount_amount and tax_amount nonnegative
createTransactionInputSchema(inp) ==
    /\ Len(inp.items) >= 1
    /\ \A k \in 1..Len(inp.items) :
          /\ inp.items[k].quantity \in Int
          /\ inp.items[k].quantity > 0
          /\ inp.items[k].unit_price > 0
    /\ inp.discount_amount >= 0
    /\ inp.tax_amount >= 0
    /\ inp.payment_method \in PaymentMethods

\* createPaymentInputSchema: amount positive, payment_method one of cash, qris,
\* bank_transfer
createPaymentInputSchema(inp) ==
    /\ inp.amount > 0
    /\ inp.payment_method \in {"cash", "qris", "bank_transfer"}

\* the requests a client can send to createTransaction, well-formed or not
RawSaleInputs ==
    [customer_id : {NoCustomer},
     items : UNION {[1..n -> [product_id : {1}, quantity : {0 - 1, 0, 1},
                              unit_price : {0 - Cent, 0, Cent}]] : n \in 0..MaxItems},
     discount_amount : {0 - Cent, 0, Cent}, tax_amount : {0 - Cent, 0, Cent},
     payment_method : {"cash"}]

\* the requests a client can send to createPayment, well-formed or not
RawPaymentInputs ==
    [transaction_id : {1}, customer_id : {1},
     amount : {0 - Cent, 0} \cup 1..MaxAmount,
     payment_method : PaymentMethods]

\* a request arrives at the route createTransaction
RequestSale(c, raw) ==
    /\ pc[c] = "idle"
    /\ pc' = [pc EXCEPT ![c] = "request"]
    /\ input' = [input EXCEPT ![c] = raw]
    /\ UNCHANGED <<store, payVars, queryVars, catalogVars, txSeq, rowLock, allProducts, idx,
                   pendingTx, pendingItems, pendingStock, error, errorProduct, result>>

\* .input(createTransactionInputSchema): the request is parsed; the mutation
\* calls createTransaction(input) only with an input the schema accepts
ParseSale(c) ==
    /\ pc[c] = "request"
    /\ IF createTransactionInputSchema(input[c])
       THEN /\ pc' = [pc EXCEPT ![c] = "selectFirst"]
            /\ UNCHANGED <<input, error>>
       ELSE /\ pc' = [pc EXCEPT ![c] = "done"]
            /\ error' = [error EXCEPT ![c] = "validation"]
            /\ input' = [input EXCEPT ![c] = NoInput]
    /\ UNCHANGED <<store, payVars, queryVars, catalogVars, txSeq, rowLock, allProducts, idx,
                   pendingTx, pendingItems, pendingStock, errorProduct, result>>

\* a request arrives at the route createPayment
RequestPayment(k, raw) ==
    /\ ppc[k] = "idle"
    /\ ppc' = [ppc EXCEPT ![k] = "request"]
    /\ pinput' = [pinput EXCEPT ![k] = raw]
    /\ UNCHANGED <<store, saleVars, queryVars, catalogVars, ptransaction, pstatus, perror, presult>>

\* .input(createPaymentInputSchema): the request is parsed; the mutation calls
\* createPayment(input) only with an input the schema accepts
ParsePayment(k) ==
    /\ ppc[k] = "request"
    /\ IF createPaymentInputSchema(pinput[k])
       THEN /\ ppc' = [ppc EXCEPT ![k] = "selectTransaction"]
            /\ UNCHANGED <<pinput, ptransaction, pstatus, perror, presult>>
       ELSE Return(k, "validation")
    /\ UNCHANGED <<store, saleVars, queryVars, catalogVars>>

\* ------------------------------------------------------ the specification
Init ==
    /\ products \in [Products -> [stock_quantity : 0..MaxStock, is_active : {TRUE}, price : {Cent}]]
    /\ transactions = <<>>
    /\ transactionItems = <<>>
    /\ payments = <<>>
    /\ txSeq = 0
    /\ rowLock = [p \in Products |-> 0]
    /\ pc = [c \in Calls |-> "idle"]
    /\ input = [c \in Calls |-> NoInput]
    /\ allProducts = [c \in Calls |-> <<>>]
    /\ idx = [c \in Calls |-> 0]
    /\ pendingTx = [c \in Calls |-> <<>>]
    /\ pendingItems = [c \in Calls |-> <<>>]
    /\ pendingStock = [c \in Calls |-> <<>>]
    /\ error = [c \in Calls |-> "none"]
    /\ errorProduct = [c \in Calls |-> 0]
    /\ result = [c \in Calls |-> <<>>]
    /\ ppc = [k \in PayCalls |-> "idle"]
    /\ pinput = [k \in PayCalls |-> NoPayInput]
    /\ ptransaction = [k \in PayCalls |-> <<>>]
    /\ pstatus = [k \in PayCalls |-> "none"]
    /\ perror = [k \in PayCalls |-> "none"]
    /\ presult = [k \in PayCalls |-> <<>>]
    /\ qpc = "idle"
    /\ qcustomer = NoCustomer
    /\ qunpaid = 0
    /\ debt = <<>>
    /\ upc = "idle"
    /\ uinput = NoUpdate
    /\ uerror = "none"

BeginSale == \E c \in Calls : pc[c] = "idle" /\ \E inp \in StockInputs : Begin(c, inp)
BeginPricedSale == pc[1] = "idle" /\ \E inp \in PricedInputs : Begin(1, inp)
SelectFirstStep == \E c \in Calls : SelectFirst(c)
SelectProductStep == \E c \in Calls : SelectProduct(c)
CheckStockStep == \E c \in Calls : CheckStock(c)
InsertTransactionStep == \E c \in Calls : InsertTransaction(c)
InsertItemStep == \E c \in Calls : InsertItem(c)
UpdateStockStep == \E c \in Calls : UpdateStock(c)
CommitStep == \E c \in Calls : Commit(c)
StorageFailureStep == \E c \in Calls : StorageFailure(c)
DeadlockAbortStep == \E c \in Calls : DeadlockAbort(c)
RollbackStep == \E c \in Calls : Rollback(c)

SaleSteps ==
    \/ SelectFirstStep
    \/ SelectProductStep
    \/ CheckStockStep
    \/ InsertTransactionStep
    \/ InsertItemStep
    \/ UpdateStockStep
    \/ CommitStep
    \/ StorageFailureStep
    \/ RollbackStep

\* concurrent sales over every product
Next ==
    \/ BeginSale
    \/ SaleSteps
    \/ DeadlockAbortStep

Spec == Init /\ [][Next]_vars

\* one sale, over every price, discount, tax and payment method, of a
\* product in full stock
InitPricing ==
    /\ Init
    /\ \A p \in Products : products[p].stock_quantity = MaxStock

NextPricing ==
    \/ BeginPricedSale
    \/ SaleSteps

SpecPricing == InitPricing /\ [][NextPricing]_vars

\* concurrent payments against a ledger of two committed sales
InitSettle ==
    \E ledger \in Ledgers :
        /\ transactions = [i \in 1..2 |-> transactionRow(i, ledger[i])]
        /\ transactionItems = [i \in 1..2 |-> itemRow(i, ledger[i].items[1])]
        /\ products = [p \in Products |->
                         [stock_quantity |-> MaxStock - Demand(ledger[1].items, p)
                                                      - Demand(ledger[2].items, p),
                          is_active |-> TRUE,
                          price |-> Cent]]
        /\ txSeq = 2
        /\ payments = <<>>
        /\ rowLock = [p \in Products |-> 0]
        /\ pc = [c \in Calls |-> "idle"]
        /\ input = [c \in Calls |-> NoInput]
        /\ allProducts = [c \in Calls |-> <<>>]
        /\ idx = [c \in Calls |-> 0]
        /\ pendingTx = [c \in Calls |-> <<>>]
        /\ pendingItems = [c \in Calls |-> <<>>]
        /\ pendingStock = [c \in Calls |-> <<>>]
        /\ error = [c \in Calls |-> "none"]
        /\ errorProduct = [c \in Calls |-> 0]
        /\ result = [c \in Calls |-> <<>>]
        /\ ppc = [k \in PayCalls |-> "idle"]
        /\ pinput = [k \in PayCalls |-> NoPayInput]
        /\ ptransaction = [k \in PayCalls |-> <<>>]
        /\ pstatus = [k \in PayCalls |-> "none"]
        /\ perror = [k \in PayCalls |-> "none"]
        /\ presult = [k \in PayCalls |-> <<>>]
        /\ qpc = "idle"
        /\ qcustomer = NoCustomer
        /\ qunpaid = 0
        /\ debt = <<>>
        /\ upc = "idle"
        /\ uinput = NoUpdate
        /\ uerror = "none"

BeginPaymentStep ==
    \E k \in PayCalls : ppc[k] = "idle" /\ \E inp \in PaymentInputs : BeginPayment(k, inp)
SelectTransactionStep == \E k \in PayCalls : SelectTransaction(k)
InsertPaymentStep == \E k \in PayCalls : InsertPayment(k)
SelectPaymentsStep == \E k \in PayCalls : SelectPayments(k)
UpdateStatusStep == \E k \in PayCalls : UpdateStatus(k)
PaymentStorageFailureStep == \E k \in PayCalls : PaymentStorageFailure(k)

NextSettle ==
    \/ BeginPaymentStep
    \/ SelectTransactionStep
    \/ InsertPaymentStep
    \/ SelectPaymentsStep
    \/ UpdateStatusStep
    \/ PaymentStorageFailureStep

SpecSettle == InitSettle /\ [][NextSettle]_vars

\* payments one after another: a call starts when no other call is running
BeginPaymentAlone ==
    \E k \in PayCalls :
        /\ ppc[k] = "idle"
        /\ \A j \in PayCalls : ppc[j] \in {"idle", "done"}
        /\ \E inp \in PaymentInputs : BeginPayment(k, inp)

NextSettleInTurn ==
    \/ BeginPaymentAlone
    \/ SelectTransactionStep
    \/ InsertPaymentStep
    \/ SelectPaymentsStep
    \/ UpdateStatusStep
    \/ PaymentStorageFailureStep

SpecSettleInTurn == InitSettle /\ [][NextSettleInTurn]_vars

\* one request to the route createTransaction, well-formed or not
RequestSaleStep == pc[1] = "idle" /\ \E raw \in RawSaleInputs : RequestSale(1, raw)
ParseSaleStep == \E c \in Calls : ParseSale(c)

NextSaleRoute ==
    \/ RequestSaleStep
    \/ ParseSaleStep
    \/ SaleSteps

SpecSaleRoute == InitPricing /\ [][NextSaleRoute]_vars

\* concurrent requests to the route createPayment, well-formed or not
RequestPaymentStep ==
    \E k \in PayCalls : ppc[k] = "idle" /\ \E raw \in RawPaymentInputs : RequestPayment(k, raw)
ParsePaymentStep == \E k \in PayCalls : ParsePayment(k)

NextPaymentRoute ==
    \/ RequestPaymentStep
    \/ ParsePaymentStep
    \/ SelectTransactionStep
    \/ InsertPaymentStep
    \/ SelectPaymentsStep
    \/ UpdateStatusStep
    \/ PaymentStorageFailureStep

SpecPaymentRoute == InitSettle /\ [][NextPaymentRoute]_vars

\* debt queries while payments are made
SelectUnpaidStep == \E customerId \in QueryCustomers : SelectUnpaid(customerId)

NextDebt ==
    \/ NextSettle
    \/ SelectUnpaidStep
    \/ SelectPaid
    \/ DebtStorageFailure

SpecDebt == InitSettle /\ [][NextDebt]_vars

\* a sale and a payment against the ledger while the catalog is edited
BeginShopSale == pc[1] = "idle" /\ \E inp \in ShopInputs : Begin(1, inp)
BeginShopPayment == ppc[1] = "idle" /\ \E inp \in ShopPayments : BeginPayment(1, inp)
BeginUpdateStep == upc = "idle" /\ \E inp \in UpdateProductInputs : BeginUpdate(inp)

NextShop ==
    \/ BeginShopSale
    \/ SaleSteps
    \/ BeginShopPayment
    \/ SelectTransactionStep
    \/ InsertPaymentStep
    \/ SelectPaymentsStep
    \/ UpdateStatusStep
    \/ PaymentStorageFailureStep
    \/ BeginUpdateStep
    \/ SelectExistingProduct
    \/ UpdateProduct
    \/ UpdateStorageFailure

SpecShop == InitSettle /\ [][NextShop]_vars

\* concurrent sales under fair scheduling: the event loop resumes every call
\* whose awaited statement has returned, the store runs every statement that
\* waits for no lock, and its deadlock detector ends every wait cycle; that a
\* statement is refused by the store is possible, never required
BeginLiveSale == \E c \in Calls : pc[c] = "idle" /\ \E inp \in LiveInputs : Begin(c, inp)

NextLive ==
    \/ BeginLiveSale
    \/ SaleSteps
    \/ DeadlockAbortStep

CallProgress(c) ==
    \/ SelectFirst(c)
    \/ SelectProduct(c)
    \/ CheckStock(c)
    \/ InsertTransaction(c)
    \/ InsertItem(c)
    \/ UpdateStock(c)
    \/ Commit(c)
    \/ DeadlockAbort(c)
    \/ Rollback(c)

SpecLive == InitPricing /\ [][NextLive]_vars /\ \A c \in Calls : WF_vars(CallProgress(c))

\* ------------------------------------------------------------ the claims
\* what a step of call c is, seen from outside: its position changes
Steps(c) == pc'[c] # pc[c]
Commits(c) == pc[c] = "commit" /\ pc'[c] = "done"

\* the row the selects of call c returned for product pid
ReadStock(c, pid) ==
    LET hits == SelectSeq(allProducts[c], LAMBDA r : r.id = pid)
    IN  hits[1].stock_quantity

RECURSIVE Quantities(_)
Quantities(items) ==
    IF items = <<>> THEN 0 ELSE Head(items).quantity + Quantities(Tail(items))

Affected(items) == {items[k].product_id : k \in 1..Len(items)}

RECURSIVE StockOver(_, _)
StockOver(prods, ids) ==
    IF ids = {} THEN 0
    ELSE LET p == CHOOSE q \in ids : TRUE
         IN  prods[p].stock_quantity + StockOver(prods, ids \ {p})

NothingPending(c) ==
    pendingTx[c] = <<>> /\ pendingItems[c] = <<>> /\ pendingStock[c] = <<>>

\* C1: a call whose stock check meets a line asking more than the stock read
\* for its product throws the insufficient-stock error, has written nothing,
\* and neither that step nor its rollback changes any table.
C1_FailedStockCheckWritesNothing ==
    [][\A c \in Calls :
        /\ ( /\ pc[c] = "check"
             /\ \E k \in 1..Len(input[c].items) :
                   ReadStock(c, input[c].items[k].product_id) < input[c].items[k].quantity
             /\ Steps(c) )
           => /\ pc'[c] = "rollback"
              /\ error'[c] = "insufficient_stock"
              /\ NothingPending(c)
              /\ store' = store
        /\ (pc[c] = "rollback" /\ error[c] = "insufficient_stock" /\ Steps(c))
           => /\ pc'[c] = "done"
              /\ error'[c] = "insufficient_stock"
              /\ result'[c] = <<>>
              /\ NothingPending(c)
              /\ store' = store]_vars

C1_Witness ==
    \E c \in Calls : pc[c] = "done" /\ error[c] = "insufficient_stock"

\* C2: the commit of a successful call lowers the stock of the products of its
\* cart, summed, by the sum of the quantities of the cart.
C2_Conservation ==
    [][\A c \in Calls :
        Commits(c) =>
            StockOver(products, Affected(input[c].items))
              - StockOver(products', Affected(input[c].items))
            = Quantities(input[c].items)]_vars

\* C3: a cart whose lines on one product ask, together, more than the stock
\* read for that product is rejected with the insufficient-stock error.
C3_CumulativeDemandRejected ==
    [][\A c \in Calls :
        ( /\ pc[c] = "check"
          /\ \E pid \in Affected(input[c].items) :
                Demand(input[c].items, pid) > ReadStock(c, pid)
          /\ Steps(c) )
        => error'[c] = "insufficient_stock"]_vars

\* C4: two calls that together ask more of a product than it has never both
\* succeed: no call commits a line that asks more than the committed stock of
\* its product at that moment.
C4_NoOversellingCommit ==
    [][\A c \in Calls :
        Commits(c) =>
            \A k \in 1..Len(input[c].items) :
                input[c].items[k].quantity
                  <= products[input[c].items[k].product_id].stock_quantity]_vars

\* C5: the decrement is applied to the stock current at the commit: a product
\* that the cart names on one line only ends at its committed stock minus the
\* quantity of that line.
C5_NoLostDecrement ==
    [][\A c \in Calls :
        Commits(c) =>
            \A k \in 1..Len(input[c].items) :
                LET item == input[c].items[k] IN
                Demand(input[c].items, item.product_id) = item.quantity
                => products'[item.product_id].stock_quantity
                   = products[item.product_id].stock_quantity - item.quantity]_vars

\* C6: the stock_quantity of every product is an integer >= 0 in every
\* reachable state.
C6_StockNonNegative ==
    \A p \in Products : products[p].stock_quantity \in Nat

C6_Witness ==
    /\ \A c \in Calls : pc[c] = "done" /\ result[c] # <<>>
    /\ \E p \in Products :
          /\ products[p].stock_quantity = 0
          /\ Cardinality({k \in 1..Len(transactionItems) :
                            transactionItems[k].product_id = p}) >= 2

\* what another operation can observe of the sales
ledger == <<products, transactions, transactionItems>>

\* C7: the tables change only at the commit of a call that did not fail, and
\* that one step publishes the whole sale: its transaction row, one item row
\* for every line of the cart and a stock update for every line.  A call that
\* fails after some of its writes leaves no trace of them.
C7_AllOrNothing ==
    [][ledger' # ledger =>
        \E c \in Calls :
            /\ Commits(c)
            /\ error[c] = "none"
            /\ Len(transactions') = Len(transactions) + 1
            /\ LET t == transactions'[Len(transactions')] IN
               /\ t.id = pendingTx[c][1].id
               /\ Len(transactionItems') = Len(transactionItems) + Len(input[c].items)
               /\ \A k \in 1..Len(input[c].items) :
                     /\ transactionItems'[Len(transactionItems) + k].transaction_id = t.id
                     /\ transactionItems'[Len(transactionItems) + k].product_id
                          = input[c].items[k].product_id
                     /\ pendingStock[c][k].id = input[c].items[k].product_id
                     /\ \E u \in 1..Len(pendingStock[c]) :
                           /\ pendingStock[c][u].id = input[c].items[k].product_id
                           /\ products'[input[c].items[k].product_id].stock_quantity
                                = pendingStock[c][u].stock_quantity]_vars

\* one call failed after it had written its transaction row (its serial id
\* is spent) and is rolled back, another has failed with its transaction row,
\* its item rows and a stock update written; the tables show none of it
C7_Witness ==
    /\ \E c \in Calls : pc[c] = "done" /\ error[c] \in {"storage", "deadlock"}
    /\ \E c \in Calls :
          /\ pc[c] = "rollback"
          /\ pendingTx[c] # <<>> /\ pendingItems[c] # <<>> /\ pendingStock[c] # <<>>
    /\ txSeq = 2
    /\ transactions = <<>> /\ transactionItems = <<>>

\* the sum of quantity x unit_price over a cart as the caller submitted it
RECURSIVE Submitted(_)
Submitted(items) ==
    IF items = <<>> THEN 0
    ELSE Head(items).quantity * Head(items).unit_price + Submitted(Tail(items))

\* C8: the Transaction a successful call stores and returns has total_amount =
\* the sum of quantity x unit_price over the submitted lines, and final_amount
\* = total_amount - discount_amount + tax_amount.
C8_AmountsAsSubmitted ==
    [][\A c \in Calls :
        Commits(c) =>
            LET t == transactions'[Len(transactions')] IN
            /\ result'[c] = <<t>>
            /\ t.total_amount = Submitted(input[c].items)
            /\ t.final_amount = t.total_amount - t.discount_amount + t.tax_amount]_vars

\* C9: the Transaction a successful call stores and returns has the payment
\* method of the input and starts pending exactly when that method is debt;
\* with every other method it starts paid.
C9_InitialStatusByMethod ==
    [][\A c \in Calls :
        Commits(c) =>
            LET t == transactions'[Len(transactions')] IN
            /\ Len(transactions') = Len(transactions) + 1
            /\ result'[c] = <<t>>
            /\ t.payment_method = input[c].payment_method
            /\ t.payment_status = "pending" <=> t.payment_method = "debt"
            /\ t.payment_method \in {"cash", "qris", "bank_transfer"}
                 => t.payment_status = "paid"]_vars

C9_Witness ==
    \E c \in Calls :
        /\ pc[c] = "done" /\ result[c] # <<>>
        /\ result[c][1].payment_method = "debt"
        /\ \E i \in 1..Len(transactions) :
              transactions[i] = result[c][1] /\ transactions[i].payment_status = "pending"

\* the order pending -> partial -> paid
Rank(status) == CASE status = "pending" -> 0 [] status = "partial" -> 1 [] status = "paid" -> 2

\* C10: no step takes the payment_status of a transaction backwards along
\* pending -> partial -> paid.
C10_StatusNeverRegresses ==
    [][\A i \in 1..Len(transactions) :
        Rank(transactions'[i].payment_status) >= Rank(transactions[i].payment_status)]_vars

\* ------------------------------------------------- the claims, payments
PaySteps(k) == ppc'[k] # ppc[k]

\* the stored payments of transaction txid, and what they add up to
PaymentsOf(pays, txid) == {i \in 1..Len(pays) : pays[i].transaction_id = txid}

RECURSIVE AmountOver(_, _)
AmountOver(pays, rows) ==
    IF rows = {} THEN 0
    ELSE LET i == CHOOSE j \in rows : TRUE
         IN  pays[i].amount + AmountOver(pays, rows \ {i})

\* the status that goes with a final amount and a sum of payments
StatusFor(final, paid) ==
    IF paid >= final THEN "paid" ELSE IF paid > 0 THEN "partial" ELSE "pending"

Returned(k) == ppc[k] = "done" /\ perror[k] = "none" /\ presult[k] # <<>>

\* C11: once two calls for the same transaction have both returned (and no
\* other call is at work on it), both their Payment rows are stored and the
\* payment_status of the transaction is the one that goes with its
\* final_amount and the sum of all its payments.
C11_ConcurrentPaymentsConsistent ==
    \A k1, k2 \in PayCalls :
        ( /\ k1 # k2
          /\ Returned(k1) /\ Returned(k2)
          /\ presult[k1][1].transaction_id = presult[k2][1].transaction_id
          /\ \A j \in PayCalls : ppc[j] \in {"idle", "done"} )
        => LET txid == presult[k1][1].transaction_id
               paid == AmountOver(payments, PaymentsOf(payments, txid))
           IN  /\ \E i \in 1..Len(payments) : payments[i] = presult[k1][1]
               /\ \E i \in 1..Len(payments) : payments[i] = presult[k2][1]
               /\ paid > 0 =>
                     \A i \in 1..Len(transactions) :
                        transactions[i].id = txid =>
                           transactions[i].payment_status
                             = StatusFor(transactions[i].final_amount, paid)

C13_FailedPaymentLeavesNoRow ==
    [][\A k \in PayCalls :
        ( /\ PaySteps(k)
          /\ ppc'[k] = "done"
          /\ perror'[k] # "none"
          /\ presult[k] # <<>> )
        => \A i \in 1..Len(payments') : payments'[i] # presult[k][1]]_vars

\* C14: a call against a transaction whose payment_method is not debt fails
\* with the invalid-state error, inserts no Payment and leaves the transaction
\* paid; and every stored Payment references a debt transaction.
C14_NonDebtRejected ==
    /\ [][\A k \in PayCalls :
            ( /\ ppc[k] = "selectTransaction"
              /\ PaySteps(k)
              /\ perror'[k] # "storage"
              /\ \E i \in 1..Len(transactions) :
                    /\ transactions[i].id = pinput[k].transaction_id
                    /\ transactions[i].payment_method # "debt" )
            => /\ ppc'[k] = "done"
               /\ perror'[k] = "invalid_state"
               /\ presult'[k] = <<>>
               /\ store' = store
               /\ \A i \in 1..Len(transactions') :
                     transactions'[i].id = pinput[k].transaction_id
                     => transactions'[i].payment_status = "paid"]_vars
    /\ [](\A i \in 1..Len(payments) :
             \E j \in 1..Len(transactions) :
                /\ transactions[j].id = payments[i].transaction_id
                /\ transactions[j].payment_method = "debt")

C14_Witness ==
    /\ \E k \in PayCalls : ppc[k] = "done" /\ perror[k] = "invalid_state"
    /\ \E k \in PayCalls : Returned(k)
    /\ Len(payments) = 1

\* C15: a call whose transaction_id matches no transaction fails with the
\* not-found error and writes nothing.
C15_UnknownTransactionRejected ==
    [][\A k \in PayCalls :
        ( /\ ppc[k] = "selectTransaction"
          /\ PaySteps(k)
          /\ perror'[k] # "storage"
          /\ \A i \in 1..Len(transactions) :
                transactions[i].id # pinput[k].transaction_id )
        => /\ ppc'[k] = "done"
           /\ perror'[k] = "not_found"
           /\ presult'[k] = <<>>
           /\ store' = store]_vars

C15_Witness ==
    /\ \E k \in PayCalls : ppc[k] = "done" /\ perror[k] = "not_found"
    /\ payments = <<>>

\* ------------------------------------------- the claims, getCustomerDebt
\* the transactions that count for the debt of a customer
Unpaid(txs, customerId) ==
    {i \in 1..Len(txs) : /\ txs[i].customer_id = customerId
                         /\ txs[i].payment_status # "paid"}

RECURSIVE FinalOver(_, _)
FinalOver(txs, rows) ==
    IF rows = {} THEN 0
    ELSE LET i == CHOOSE j \in rows : TRUE
         IN  txs[i].final_amount + FinalOver(txs, rows \ {i})

PaidBy(pays, customerId) == {i \in 1..Len(pays) : pays[i].customer_id = customerId}

\* C16: getCustomerDebt never returns a negative value.
C16_DebtNonNegative == debt # <<>> => debt[1] >= 0

\* a customer has paid more than the transactions still open ask, and the
\* debt returned is 0
C16_Witness ==
    /\ debt = <<0>>
    /\ \E c \in CustomerIds :
          /\ Unpaid(transactions, c) # {}
          /\ AmountOver(payments, PaidBy(payments, c))
               > FinalOver(transactions, Unpaid(transactions, c))

\* C17: getCustomerDebt returns max(0, S - P): S, read by its first select, is
\* the sum of final_amount over the customer's pending and partial
\* transactions, and P, read by its second select, the sum of amount over the
\* payments with the customer's id.  Without such transactions S is 0 and so
\* is the result.
C17_DebtFormula ==
    [][/\ (qpc = "idle" /\ qpc' = "selectPayments")
          => qunpaid' = FinalOver(transactions, Unpaid(transactions, qcustomer'))
       /\ (qpc = "selectPayments" /\ debt' # <<>>)
          => LET P == AmountOver(payments, PaidBy(payments, qcustomer))
                 S == qunpaid
             IN  /\ debt'[1] = IF S - P > 0 THEN S - P ELSE 0
                 /\ (Unpaid(transactions, qcustomer) = {} /\ S = 0) => debt'[1] = 0]_vars

\* a debt is returned that is what is left of an open transaction after a
\* payment, while the same customer also has a paid transaction
C17_Witness ==
    /\ debt # <<>> /\ debt[1] > 0
    /\ qpc = "idle"
    /\ \A k \in PayCalls : ppc[k] \in {"idle", "done"}
    /\ \E c \in CustomerIds :
          /\ Unpaid(transactions, c) # {}
          /\ \E i \in 1..Len(transactions) :
                transactions[i].customer_id = c /\ transactions[i].payment_status = "paid"
          /\ PaidBy(payments, c) # {}
          /\ debt[1] = FinalOver(transactions, Unpaid(transactions, c))
                         - AmountOver(payments, PaidBy(payments, c))

\* ------------------------------------------- the claims, validation
\* the lines of a cart that name no product
Missing(items) == {k \in 1..Len(items) : items[k].product_id \notin DOMAIN products}

\* C18: a call whose select loop meets a product id that does not exist throws
\* the not-found error naming that id, has written nothing and its rollback
\* changes no table; and no call comes to the stock check, or throws the
\* insufficient-stock error, with a line of its cart naming a missing product.
C18_MissingProductRejectedFirst ==
    [][\A c \in Calls :
        /\ ( /\ pc[c] = "select"
             /\ Steps(c)
             /\ error'[c] # "storage"
             /\ idx[c] \in Missing(input[c].items) )
           => /\ pc'[c] = "rollback"
              /\ error'[c] = "not_found"
              /\ errorProduct'[c] = input[c].items[idx[c]].product_id
              /\ NothingPending(c)
              /\ store' = store
        /\ (pc[c] = "rollback" /\ error[c] = "not_found" /\ Steps(c))
           => /\ pc'[c] = "done"
              /\ error'[c] = "not_found"
              /\ result'[c] = <<>>
              /\ store' = store
        /\ (pc'[c] = "check" \/ error'[c] = "insufficient_stock")
           => Missing(input[c].items) = {}]_vars

\* a cart with a line that asks more than the stock of its product, and after
\* it a line naming a missing product, has failed with the not-found error
C18_Witness ==
    \E c \in Calls :
        /\ pc[c] = "rollback"
        /\ error[c] = "not_found"
        /\ errorProduct[c] \notin DOMAIN products
        /\ \E k, m \in 1..Len(input[c].items) :
              /\ k < m
              /\ input[c].items[k].product_id \in DOMAIN products
              /\ products[input[c].items[k].product_id].stock_quantity
                   < input[c].items[k].quantity
              /\ input[c].items[m].product_id = errorProduct[c]
        /\ transactions = <<>>

\* a request the claim calls invalid
InvalidSale(inp) ==
    \/ inp.items = <<>>
    \/ \E k \in 1..Len(inp.items) :
          inp.items[k].quantity <= 0 \/ inp.items[k].unit_price <= 0
    \/ inp.discount_amount < 0
    \/ inp.tax_amount < 0

\* C19: a request with no item, a quantity <= 0, a unit_price <= 0, a negative
\* discount_amount or a negative tax_amount ends at the route with a
\* validation error and no change of any table, and createTransaction never
\* runs on such an input.
C19_InvalidSaleRejected ==
    /\ [][\A c \in Calls :
            (pc[c] = "request" /\ Steps(c) /\ InvalidSale(input[c]))
            => /\ pc'[c] = "done"
               /\ error'[c] = "validation"
               /\ result'[c] = <<>>
               /\ NothingPending(c)
               /\ txSeq' = txSeq
               /\ store' = store]_vars
    /\ [](\A c \in Calls :
             pc[c] \notin {"idle", "request", "done"} => ~InvalidSale(input[c]))

C19_Witness ==
    /\ pc[1] = "done" /\ error[1] = "validation"
    /\ transactions = <<>> /\ transactionItems = <<>> /\ txSeq = 0
    /\ \A p \in Products : products[p].stock_quantity = MaxStock

\* C20: every stored Payment has amount > 0 and a payment_method that is cash,
\* qris or bank_transfer, and a request with amount <= 0 or method debt ends
\* at the route with a validation error and stores nothing.
C20_StoredPaymentsPositive ==
    /\ [](\A i \in 1..Len(payments) :
             /\ payments[i].amount > 0
             /\ payments[i].payment_method \in {"cash", "qris", "bank_transfer"})
    /\ [][\A k \in PayCalls :
            ( /\ ppc[k] = "request"
              /\ PaySteps(k)
              /\ (pinput[k].amount <= 0 \/ pinput[k].payment_method = "debt") )
            => /\ ppc'[k] = "done"
               /\ perror'[k] = "validation"
               /\ presult'[k] = <<>>
               /\ store' = store]_vars

\* C21: the unit_price and subtotal of every item sold, and the total_amount
\* and final_amount of every transaction, stay as they were committed in every
\* step, also in the step of updateProduct that changes the price of the product
C21_PricesFrozen ==
    [][/\ \A i \in 1..Len(transactionItems) :
             /\ i <= Len(transactionItems')
             /\ transactionItems'[i] = transactionItems[i]
       /\ \A t \in 1..Len(transactions) :
             /\ t <= Len(transactions')
             /\ transactions'[t].total_amount = transactions[t].total_amount
             /\ transactions'[t].final_amount = transactions[t].final_amount]_vars

\* updateProduct has changed the price of a product that has an item sold at
\* the former price
C21_Witness ==
    /\ uerror = "none"
    /\ \E i \in 1..Len(transactionItems) :
          /\ products[transactionItems[i].product_id].price = 2 * Cent
          /\ transactionItems[i].unit_price = Cent
          /\ transactionItems[i].subtotal = transactionItems[i].quantity * Cent

\* C22: in every step every existing transaction keeps every field but
\* payment_status; payment_status changes only in the status update of a
\* createPayment call for that transaction, and only if its payment_method is
\* debt; a transaction of another payment_method stays paid
C22_OnlyStatusChanges ==
    [][\A t \in 1..Len(transactions) :
          /\ t <= Len(transactions')
          /\ [transactions'[t] EXCEPT !.payment_status = transactions[t].payment_status]
                = transactions[t]
          /\ transactions'[t].payment_status # transactions[t].payment_status
                => /\ transactions[t].payment_method = "debt"
                   /\ \E k \in PayCalls :
                         /\ ppc[k] = "updateStatus"
                         /\ PaySteps(k)
                         /\ pinput[k].transaction_id = transactions[t].id
          /\ transactions[t].payment_method # "debt"
                => transactions'[t].payment_status = "paid"]_vars

\* a payment has advanced a debt transaction, next to a transaction paid in
\* cash, after a later sale committed and the product was edited
C22_Witness ==
    /\ Len(transactions) > 2
    /\ \E t \in 1..Len(transactions) :
          /\ transactions[t].payment_method = "debt"
          /\ transactions[t].payment_status \in {"partial", "paid"}
    /\ \E t \in 1..Len(transactions) :
          /\ transactions[t].payment_method = "cash"
          /\ transactions[t].payment_status = "paid"
    /\ products[1].price = 2 * Cent

\* C23: no createTransaction call commits a cart with a line whose product
\* the call itself read with is_active false: such a call creates no
\* transaction and no item and leaves the stock as it is
C23_InactiveNotSold ==
    [][\A c \in Calls :
          Commits(c) =>
             \A k \in 1..Len(input[c].items) :
                 findProduct(allProducts[c], input[c].items[k].product_id).is_active]_vars

ItemsOf(items, txid) == {i \in 1..Len(items) : items[i].transaction_id = txid}

RECURSIVE SubtotalOver(_, _)
SubtotalOver(items, rows) ==
    IF rows = {} THEN 0
    ELSE LET i == CHOOSE j \in rows : TRUE
         IN  items[i].subtotal + SubtotalOver(items, rows \ {i})

\* C25: a successful call adds one item row per line of its cart, with the id
\* of the new transaction and the product_id, quantity and unit_price of the
\* line, and subtotal = quantity x unit_price; in every state every item row
\* belongs to a stored transaction whose total_amount is the sum of the
\* subtotals of its item rows; no step changes or removes an item row
C25_ItemsMatchCart ==
    /\ [](\A i \in 1..Len(transactionItems) :
             \E t \in 1..Len(transactions) :
                /\ transactions[t].id = transactionItems[i].transaction_id
                /\ transactions[t].total_amount
                      = SubtotalOver(transactionItems,
                                     ItemsOf(transactionItems, transactions[t].id)))
    /\ [][/\ \A i \in 1..Len(transactionItems) :
                /\ i <= Len(transactionItems')
                /\ transactionItems'[i] = transactionItems[i]
          /\ \A c \in Calls :
                Commits(c) =>
                   LET n == Len(input[c].items)
                       base == Len(transactionItems)
                   IN  /\ Len(transactionItems') = base + n
                       /\ \A k \in 1..n :
                             LET row == transactionItems'[base + k]
                                 line == input[c].items[k]
                             IN  /\ row.transaction_id = result'[c][1].id
                                 /\ row.product_id = line.product_id
                                 /\ row.quantity = line.quantity
                                 /\ row.unit_price = line.unit_price
                                 /\ row.subtotal = row.quantity * row.unit_price]_vars

\* by how much the discount of an input exceeds its total plus its tax
Excess(inp) == inp.discount_amount - Submitted(inp.items) - inp.tax_amount

C27_OpenDebtShows ==
    [][( /\ qpc = "selectPayments"
         /\ debt' # <<>>
         /\ qunpaid = FinalOver(transactions, Unpaid(transactions, qcustomer))
         /\ \A k \in PayCalls : ppc[k] \in {"idle", "done"}
         /\ \A i \in 1..Len(transactions) :
               AmountOver(payments, PaymentsOf(payments, transactions[i].id))
                  <= transactions[i].final_amount
         /\ \E i \in 1..Len(transactions) :
               /\ transactions[i].customer_id = qcustomer
               /\ transactions[i].payment_method = "debt"
               /\ transactions[i].payment_status = "pending"
               /\ transactions[i].final_amount > 0
               /\ PaymentsOf(payments, transactions[i].id) = {}
         /\ \A i \in 1..Len(transactions) :
               transactions[i].customer_id = qcustomer => transactions[i].final_amount > 0
         /\ \A j \in PaidBy(payments, qcustomer) :
               \E i \in 1..Len(transactions) :
                  /\ transactions[i].id = payments[j].transaction_id
                  /\ transactions[i].customer_id = qcustomer )
       => debt'[1] > 0]_vars

\* what getCustomerDebt returns for a customer when both its selects read
\* the given tables
DebtOf(txs, pays, customerId) ==
    customerDebt(unpaidAmount(txs, customerId), paidAmount(pays, customerId))

C29_PaymentCreditsDebtor ==
    \A j \in 1..Len(payments) :
        \A i \in 1..Len(transactions) :
            transactions[i].id = payments[j].transaction_id
               => payments[j].customer_id = transactions[i].customer_id

\* C30: under fair scheduling every createTransaction call that was started
\* completes: it has committed and returned its Transaction, or it has thrown
\* and returned none; either way none of its writes is left pending and it
\* holds no row lock. That includes two calls that update the same products in
\* opposite order
C30_EveryCallCompletes ==
    \A c \in Calls :
        (pc[c] # "idle") ~>
            ( /\ pc[c] = "done"
              /\ (error[c] = "none") = (result[c] # <<>>)
              /\ NothingPending(c)
              /\ \A p \in Products : rowLock[p] # c )

\* two calls have waited for each other's product rows: one was ended by the
\* deadlock detector, the other committed, and no lock is left
C30_Witness ==
    \E c, d \in Calls :
        /\ pc[c] = "done" /\ error[c] = "deadlock" /\ result[c] = <<>>
        /\ pc[d] = "done" /\ error[d] = "none" /\ result[d] # <<>>
        /\ \A p \in Products : rowLock[p] = 0
        /\ \A p \in Products : products[p].stock_quantity = MaxStock - 1

====
